---- MODULE Spec2Model ----
(***************************************************************************)
(* A model of dashboard.py: the demonstration data generator               *)
(* (generate_sample_data), the portfolio summary (calculate_risk_metrics)  *)
(* and the data steps of create_dashboard (age grouping, risk banding,     *)
(* slider filter).                                                         *)
(*                                                                         *)
(* Floating-point columns (income, loan_amount, payment_history,           *)
(* default_risk and credit_score before astype(int)) are fixed-point       *)
(* numbers in tenths: the integer 705 stands for 70.5.  Integer columns    *)
(* (customer_id, age, existing_loans, employment_length and credit_score   *)
(* after astype(int)) are plain integers.  A mean is the exact fraction    *)
(* num/den; 0/0 is NaN, which is what pandas returns for the mean of an    *)
(* empty column.  Chart and table rendering calls keep no program state    *)
(* and are not modelled.                                                   *)
(***************************************************************************)
EXTENDS Integers, Sequences, FiniteSets, TLC

VARIABLES pc, df, metrics, risk_distribution, filtered_df,
          min_credit_score, max_default_risk

vars == <<pc, df, metrics, risk_distribution, filtered_df,
          min_credit_score, max_default_risk>>

(* Largest num_records tried by the dashboard run. *)
MaxRecords == 2

(* Largest num_records tried when the generator is exercised alone. *)
MaxGenRecords == 2

(* Largest number of records supplied by an external feed. *)
MaxFeedRecords == 1

(* An integer literal of the source as a fixed-point float (tenths). *)
Fixed(n) == n * 10

NaN == "NaN"

(* ---------------------------------------------------------------------- *)
(* numpy / pandas primitives used by the program                          *)
(* ---------------------------------------------------------------------- *)

(* Series.clip(lower, upper) on one value *)
Clip_no_upper(x, lower, upper) == IF x < lower THEN lower ELSE x

Clip(x, lower, upper) ==
    IF x < lower THEN lower ELSE IF x > upper THEN upper ELSE x

(* astype(int) on one float: truncation toward zero *)
AsInt(x) == IF x >= 0 THEN x \div 10 ELSE -((-x) \div 10)

(* pd.cut(x, bins, labels) with the defaults right=True,                   *)
(* include_lowest=False: bin i is (bins[i], bins[i+1]]; a value in no bin  *)
(* is NaN.                                                                 *)
Cut_left_closed(x, bins, labels) ==
    IF \E i \in 1..Len(labels) : bins[i] <= x /\ x < bins[i + 1]
    THEN labels[CHOOSE i \in 1..Len(labels) : bins[i] <= x /\ x < bins[i + 1]]
    ELSE NaN

Cut(x, bins, labels) ==
    IF \E i \in 1..Len(labels) : bins[i] < x /\ x <= bins[i + 1]
    THEN labels[CHOOSE i \in 1..Len(labels) : bins[i] < x /\ x <= bins[i + 1]]
    ELSE NaN

(* Series.sum(): 0 for an empty column *)
RECURSIVE ColSum(_)
ColSum(col) ==
    IF Len(col) = 0 THEN 0 ELSE Head(col) + ColSum(Tail(col))

(* Series.mean(): sum / count, NaN (0/0) for an empty column *)
ColMean(col) == [num |-> ColSum(col), den |-> Len(col)]

IsNaN(q) == q.den = 0

(* df[mask]: the rows whose mask entry is True, in index order *)
RECURSIVE BoolIndex(_, _)
BoolIndex(d, mask) ==
    IF Len(d) = 0 THEN <<>>
    ELSE IF Head(mask)
         THEN <<Head(d)>> \o BoolIndex(Tail(d), Tail(mask))
         ELSE BoolIndex(Tail(d), Tail(mask))

(* sort_values(ascending=False) of value_counts: descending by count, ties *)
(* left in category order                                                  *)
RECURSIVE InsertDesc(_, _)
InsertDesc(row, rows) ==
    IF Len(rows) = 0 THEN <<row>>
    ELSE IF Head(rows).count >= row.count
         THEN <<Head(rows)>> \o InsertDesc(row, Tail(rows))
         ELSE <<row>> \o rows

RECURSIVE SortDesc(_)
SortDesc(rows) ==
    IF Len(rows) = 0 THEN <<>>
    ELSE InsertDesc(rows[Len(rows)], SortDesc(SubSeq(rows, 1, Len(rows) - 1)))

(* Series.value_counts() of a categorical column: one row per category,    *)
(* unused categories included with count 0, NaN entries dropped, then      *)
(* reset_index() and the two column names                                  *)
ValueCounts_observed_only(cats, labels) ==
    SortDesc(BoolIndex(
        [k \in 1..Len(labels) |->
            [band  |-> labels[k],
             count |-> Cardinality({i \in 1..Len(cats) : cats[i] = labels[k]})]],
        [k \in 1..Len(labels) |-> \E i \in 1..Len(cats) : cats[i] = labels[k]]))

ValueCounts(cats, labels) ==
    SortDesc([k \in 1..Len(labels) |->
        [band  |-> labels[k],
         count |-> Cardinality({i \in 1..Len(cats) : cats[i] = labels[k]})]])

(* ---------------------------------------------------------------------- *)
(* generate_sample_data                                                   *)
(* ---------------------------------------------------------------------- *)

(* The rows the random draws of lines 14-21 can yield, before clean-up.    *)
RawRows(D) ==
    [age : D.age, income : D.income, credit_score : D.credit_score,
     loan_amount : D.loan_amount, payment_history : D.payment_history,
     existing_loans : D.existing_loans,
     employment_length : D.employment_length,
     default_risk : D.default_risk]

(* Draws of the dashboard run: credit scores below the clip range and      *)
(* around a slider position, risks at 0, at a band boundary and around the *)
(* high-risk threshold.                                                    *)
DashDraws ==
    [age               |-> {25},
     income            |-> {Fixed(60000)},
     credit_score      |-> {2950, 7499, 7505},
     loan_amount       |-> {Fixed(30000), 255005},
     payment_history   |-> {Fixed(50)},
     existing_loans    |-> {1},
     employment_length |-> {5},
     default_risk      |-> {0, Fixed(20), Fixed(70), 701}]

(* Draws of the generator alone: both ends of every integer range, and     *)
(* normal draws below, inside and above the clip ranges.                   *)
WideDraws ==
    [age               |-> {20, 69},
     income            |-> {150000, 600005, Fixed(200000)},
     credit_score      |-> {2999, 7005, 8509},
     loan_amount       |-> {Fixed(30000)},
     payment_history   |-> {Fixed(50)},
     existing_loans    |-> {0, 4},
     employment_length |-> {0, 29},
     default_risk      |-> {0, 999}]

generate_sample_data(num_records, data) ==
    [i \in 1..num_records |->
        [customer_id       |-> i,
         age               |-> data[i].age,
         income            |-> Clip(data[i].income, Fixed(20000), Fixed(150000)),
         credit_score      |-> AsInt(Clip(data[i].credit_score,
                                          Fixed(300), Fixed(850))),
         loan_amount       |-> data[i].loan_amount,
         payment_history   |-> data[i].payment_history,
         existing_loans    |-> data[i].existing_loans,
         employment_length |-> data[i].employment_length,
         default_risk      |-> Clip(data[i].default_risk, Fixed(0), Fixed(100))]]

(* ---------------------------------------------------------------------- *)
(* calculate_risk_metrics                                                 *)
(* ---------------------------------------------------------------------- *)

Column(d, name) == [i \in 1..Len(d) |-> d[i][name]]

calculate_risk_metrics_ge70(d) ==
    [outcome             |-> "returned",
     avg_credit_score    |-> ColMean(Column(d, "credit_score")),
     high_risk_customers |->
        Len(BoolIndex(d, [i \in 1..Len(d) |-> d[i].default_risk >= Fixed(70)])),
     total_loan_amount   |-> ColSum(Column(d, "loan_amount")),
     avg_default_risk    |-> ColMean(Column(d, "default_risk"))]

calculate_risk_metrics(d) ==
    [outcome             |-> "returned",
     avg_credit_score    |-> ColMean(Column(d, "credit_score")),
     high_risk_customers |->
        Len(BoolIndex(d, [i \in 1..Len(d) |-> d[i].default_risk > Fixed(70)])),
     total_loan_amount   |-> ColSum(Column(d, "loan_amount")),
     avg_default_risk    |-> ColMean(Column(d, "default_risk"))]

(* ---------------------------------------------------------------------- *)
(* create_dashboard: the data steps                                       *)
(* ---------------------------------------------------------------------- *)

AgeBins   == <<0, 25, 35, 45, 55, 100>>
AgeLabels == <<"18-25", "26-35", "36-45", "46-55", "55+">>

RiskBins   == <<Fixed(0), Fixed(20), Fixed(40), Fixed(60), Fixed(80), Fixed(100)>>
RiskLabels == <<"Very Low", "Low", "Medium", "High", "Very High">>

(* df['age_group'] = pd.cut(df['age'], ...): a new column on df itself *)
WithAgeGroup_from_18(d) ==
    [i \in 1..Len(d) |->
        d[i] @@ [age_group |-> Cut(d[i].age, <<18, 25, 35, 45, 55, 100>>,
                                   AgeLabels)]]

WithAgeGroup(d) ==
    [i \in 1..Len(d) |->
        d[i] @@ [age_group |-> Cut(d[i].age, AgeBins, AgeLabels)]]

(* risk_bands = pd.cut(df['default_risk'], ...) *)
RiskBands(d) ==
    [i \in 1..Len(d) |-> Cut(d[i].default_risk, RiskBins, RiskLabels)]

(* df[(df['credit_score'] >= min) & (df['default_risk'] <= max)] *)
FilterRows_drop_first(d, m, r) ==
    LET kept == BoolIndex(d, [i \in 1..Len(d) |->
                    d[i].credit_score >= m /\ d[i].default_risk <= Fixed(r)])
    IN  IF Len(kept) = 0 THEN kept ELSE Tail(kept)

FilterRows_strict(d, m, r) ==
    BoolIndex(d, [i \in 1..Len(d) |->
        d[i].credit_score > m /\ d[i].default_risk <= Fixed(r)])

FilterRows(d, m, r) ==
    BoolIndex(d, [i \in 1..Len(d) |->
        d[i].credit_score >= m /\ d[i].default_risk <= Fixed(r)])

(* Slider positions tried (the sliders range over 300..850 and 0..100). *)
CreditSliderStops == {300, 750, 850}
RiskSliderStops   == {0, 70, 100}

(* ---------------------------------------------------------------------- *)
(* State machine                                                          *)
(* ---------------------------------------------------------------------- *)

Unset == [outcome |-> "unset"]

Init ==
    /\ pc = "generate"
    /\ df = <<>>
    /\ metrics = Unset
    /\ risk_distribution = <<>>
    /\ filtered_df = <<>>
    /\ min_credit_score = 300
    /\ max_default_risk = 100

(* df = generate_sample_data(num_records) *)
GenerateSampleData(D, limit) ==
    /\ pc = "generate"
    /\ \E num_records \in 0..limit :
         \E data \in [1..num_records -> RawRows(D)] :
            df' = generate_sample_data(num_records, data)
    /\ pc' = "metrics"
    /\ UNCHANGED <<metrics, risk_distribution, filtered_df,
                   min_credit_score, max_default_risk>>

(* metrics = calculate_risk_metrics(df) *)
CalculateRiskMetrics ==
    /\ pc = "metrics"
    /\ metrics' = calculate_risk_metrics(df)
    /\ pc' = "age_group"
    /\ UNCHANGED <<df, risk_distribution, filtered_df,
                   min_credit_score, max_default_risk>>

(* df['age_group'] = pd.cut(...) *)
AgeGroup ==
    /\ pc = "age_group"
    /\ df' = WithAgeGroup(df)
    /\ pc' = "risk_bands"
    /\ UNCHANGED <<metrics, risk_distribution, filtered_df,
                   min_credit_score, max_default_risk>>

(* risk_distribution = pd.DataFrame(risk_bands.value_counts()).reset_index() *)
RiskDistribution ==
    /\ pc = "risk_bands"
    /\ risk_distribution' = ValueCounts(RiskBands(df), RiskLabels)
    /\ pc' = "filter"
    /\ UNCHANGED <<df, metrics, filtered_df,
                   min_credit_score, max_default_risk>>

(* the two sliders, then filtered_df = df[...] *)
FilterData_in_place ==
    /\ pc = "filter"
    /\ \E m \in CreditSliderStops, r \in RiskSliderStops :
         /\ min_credit_score' = m
         /\ max_default_risk' = r
         /\ filtered_df' = FilterRows(df, m, r)
         /\ df' = FilterRows(df, m, r)
    /\ pc' = "done"
    /\ UNCHANGED <<metrics, risk_distribution>>

FilterData ==
    /\ pc = "filter"
    /\ \E m \in CreditSliderStops, r \in RiskSliderStops :
         /\ min_credit_score' = m
         /\ max_default_risk' = r
         /\ filtered_df' = FilterRows(df, m, r)
    /\ pc' = "done"
    /\ UNCHANGED <<df, metrics, risk_distribution>>

Next ==
    \/ GenerateSampleData(DashDraws, MaxRecords)
    \/ CalculateRiskMetrics
    \/ AgeGroup
    \/ RiskDistribution
    \/ FilterData

Spec == Init /\ [][Next]_vars

(* The generator alone, over the wide draws. *)
NextGen == GenerateSampleData(WideDraws, MaxGenRecords)

SpecGen == Init /\ [][NextGen]_vars

(* An external feed: any sequence of PortfolioRecord-shaped rows handed to *)
(* calculate_risk_metrics and the data steps.  Ages and risks sit on, next *)
(* to and outside the bin edges.                                           *)
FeedRows ==
    [age               : {0, 1, 25, 26, 35, 36, 45, 46, 55, 56, 100, 101},
     income            : {Fixed(60000)},
     credit_score      : {700},
     loan_amount       : {Fixed(30000)},
     payment_history   : {Fixed(50)},
     existing_loans    : {1},
     employment_length : {5},
     default_risk      : {0, 1, Fixed(20), 201, Fixed(40), 401, Fixed(60), 601,
                          Fixed(80), 801, Fixed(100)}]

InitFeed ==
    /\ pc = "metrics"
    /\ \E n \in 0..MaxFeedRecords :
         \E rows \in [1..n -> FeedRows] :
            df = [i \in 1..n |-> [customer_id |-> i] @@ rows[i]]
    /\ metrics = Unset
    /\ risk_distribution = <<>>
    /\ filtered_df = <<>>
    /\ min_credit_score = 300
    /\ max_default_risk = 100

NextFeed ==
    \/ CalculateRiskMetrics
    \/ AgeGroup
    \/ RiskDistribution
    \/ FilterData

SpecFeed == InitFeed /\ [][NextFeed]_vars

(* ---------------------------------------------------------------------- *)
(* Properties                                                             *)
(* ---------------------------------------------------------------------- *)

Columns ==
    {"customer_id", "age", "income", "credit_score", "loan_amount",
     "payment_history", "existing_loans", "employment_length", "default_risk"}

MetricsDone == pc \in {"age_group", "risk_bands", "filter", "done"}
AgeGrouped  == pc \in {"risk_bands", "filter", "done"}
BandsDone   == pc \in {"filter", "done"}

(* The count reported for a band: rows of risk_distribution naming it. *)
BandRows(band) ==
    {j \in 1..Len(risk_distribution) : risk_distribution[j].band = band}

(* Number of records whose risk the band function b sends to a band. *)
Members(b(_), band) ==
    Cardinality({i \in 1..Len(df) : b(df[i].default_risk) = band})

(* The band intervals as the claim states them: [0,20) ... [80,100]. *)
HalfOpenBand(d) ==
    IF 0 <= d /\ d < Fixed(20) THEN "Very Low"
    ELSE IF Fixed(20) <= d /\ d < Fixed(40) THEN "Low"
    ELSE IF Fixed(40) <= d /\ d < Fixed(60) THEN "Medium"
    ELSE IF Fixed(60) <= d /\ d < Fixed(80) THEN "High"
    ELSE IF Fixed(80) <= d /\ d <= Fixed(100) THEN "Very High"
    ELSE NaN

(* The band intervals right-closed: (0,20] ... (80,100]; 0 in no band. *)
RightClosedBand(d) ==
    IF 0 < d /\ d <= Fixed(20) THEN "Very Low"
    ELSE IF Fixed(20) < d /\ d <= Fixed(40) THEN "Low"
    ELSE IF Fixed(40) < d /\ d <= Fixed(60) THEN "Medium"
    ELSE IF Fixed(60) < d /\ d <= Fixed(80) THEN "High"
    ELSE IF Fixed(80) < d /\ d <= Fixed(100) THEN "Very High"
    ELSE NaN

C2_EmptyInputFails ==
    MetricsDone =>
        /\ Len(df) = 0 => metrics.outcome = "EmptyInputError"
        /\ metrics.outcome = "returned" =>
              /\ ~IsNaN(metrics.avg_credit_score)
              /\ ~IsNaN(metrics.avg_default_risk)

RECURSIVE FieldSum(_, _, _)
FieldSum(d, name, n) ==
    IF n = 0 THEN 0 ELSE d[n][name] + FieldSum(d, name, n - 1)

(* C3: for a non-empty collection the summary holds the number of records  *)
(* with defaultRisk strictly above 70, the sum of loanAmount, and the      *)
(* means of creditScore and defaultRisk as sum divided by record count.    *)
C3_SummaryValues ==
    (MetricsDone /\ Len(df) > 0) =>
        /\ metrics.outcome = "returned"
        /\ metrics.high_risk_customers =
              Cardinality({i \in 1..Len(df) : df[i].default_risk > Fixed(70)})
        /\ metrics.total_loan_amount = FieldSum(df, "loan_amount", Len(df))
        /\ metrics.avg_credit_score.den # 0
        /\ metrics.avg_credit_score.num * Len(df) =
              metrics.avg_credit_score.den * FieldSum(df, "credit_score", Len(df))
        /\ metrics.avg_default_risk.den # 0
        /\ metrics.avg_default_risk.num * Len(df) =
              metrics.avg_default_risk.den * FieldSum(df, "default_risk", Len(df))

C3_Witness ==
    /\ MetricsDone
    /\ Len(df) = 2
    /\ df[1].default_risk = Fixed(70)
    /\ df[2].default_risk = 701
    /\ df[1].loan_amount # df[2].loan_amount
    /\ df[1].credit_score # df[2].credit_score
    /\ metrics.high_risk_customers = 1

Qualifies(row) ==
    /\ row.credit_score >= min_credit_score
    /\ row.default_risk <= Fixed(max_default_risk)

(* C4: the filtered view holds exactly the records with creditScore >=     *)
(* minCreditScore and defaultRisk <= maxDefaultRisk, each once, in the     *)
(* order of the input.                                                     *)
C4_FilterExact ==
    pc = "done" =>
        /\ \A j \in 1..Len(filtered_df) :
              /\ filtered_df[j].customer_id \in 1..Len(df)
              /\ filtered_df[j] = df[filtered_df[j].customer_id]
              /\ Qualifies(filtered_df[j])
        /\ \A j, k \in 1..Len(filtered_df) :
              j < k => filtered_df[j].customer_id < filtered_df[k].customer_id
        /\ \A i \in 1..Len(df) :
              Qualifies(df[i]) =>
                  \E j \in 1..Len(filtered_df) : filtered_df[j].customer_id = i

C4_Witness ==
    /\ pc = "done"
    /\ Len(df) = 2
    /\ Len(filtered_df) = 1
    /\ filtered_df[1].customer_id = 2
    /\ filtered_df[1].credit_score = min_credit_score
    /\ filtered_df[1].default_risk = Fixed(max_default_risk)

RightClosedAgeGroup(a) ==
    IF 0 < a /\ a <= 25 THEN "18-25"
    ELSE IF 25 < a /\ a <= 35 THEN "26-35"
    ELSE IF 35 < a /\ a <= 45 THEN "36-45"
    ELSE IF 45 < a /\ a <= 55 THEN "46-55"
    ELSE "55+"

(* C6: an age a with 0 < a <= 100 gets the group of the right-closed       *)
(* interval (0,25], (25,35], (35,45], (45,55], (55,100] that holds it, so  *)
(* every age in [20,70) gets exactly one group.                            *)
C6_AgeGroups ==
    AgeGrouped =>
        \A i \in 1..Len(df) :
            /\ (0 < df[i].age /\ df[i].age <= 100) =>
                  df[i].age_group = RightClosedAgeGroup(df[i].age)
            /\ (20 <= df[i].age /\ df[i].age < 70) =>
                  Cardinality({k \in 1..Len(AgeLabels) :
                                  AgeLabels[k] = df[i].age_group}) = 1

C6_Witness ==
    /\ AgeGrouped
    /\ Len(df) = 1
    /\ df[1].age = 25
    /\ df[1].age_group = "18-25"

(* C7: the risk-band distribution has one row for each of the five bands,  *)
(* and a band no record fell into is reported with count 0.                *)
C7_AllBandsReported ==
    BandsDone =>
        /\ Len(risk_distribution) = Len(RiskLabels)
        /\ \A k \in 1..Len(RiskLabels) :
              /\ Cardinality(BandRows(RiskLabels[k])) = 1
              /\ (\A i \in 1..Len(df) :
                      Cut(df[i].default_risk, RiskBins, RiskLabels) # RiskLabels[k])
                 => \A j \in BandRows(RiskLabels[k]) :
                        risk_distribution[j].count = 0

C7_Witness ==
    /\ BandsDone
    /\ Len(df) = 2
    /\ \E j \in 1..Len(risk_distribution) : risk_distribution[j].count = 0
    /\ \E j \in 1..Len(risk_distribution) : risk_distribution[j].count = 2

(* C8: every generated record has creditScore an integer in [300,850],     *)
(* income in [20000,150000], defaultRisk in [0,100], age in [20,70),       *)
(* existingLoans in [0,5), employmentLength in [0,30), and the customer    *)
(* ids are 1..num_records in ascending order.                              *)
C8_GeneratedRanges ==
    pc = "metrics" =>
        \A i \in 1..Len(df) :
            /\ df[i].customer_id = i
            /\ df[i].credit_score \in 300..850
            /\ Fixed(20000) <= df[i].income /\ df[i].income <= Fixed(150000)
            /\ Fixed(0) <= df[i].default_risk /\ df[i].default_risk <= Fixed(100)
            /\ df[i].age \in 20..69
            /\ df[i].existing_loans \in 0..4
            /\ df[i].employment_length \in 0..29

C8_Witness ==
    /\ pc = "metrics"
    /\ Len(df) = 2
    /\ df[1].credit_score = 300
    /\ df[2].credit_score = 850
    /\ df[1].income = Fixed(20000)
    /\ df[2].income = Fixed(150000)

(* C9: filtering the filtered view again with the same thresholds gives    *)
(* the filtered view back.                                                 *)
C9_FilterIdempotent ==
    pc = "done" =>
        FilterRows(filtered_df, min_credit_score, max_default_risk) = filtered_df

C9_Witness ==
    /\ pc = "done"
    /\ Len(df) = 2
    /\ Len(filtered_df) = 1
    /\ filtered_df[1].customer_id = 1

RECURSIVE CountSum(_)
CountSum(rows) ==
    IF Len(rows) = 0 THEN 0 ELSE Head(rows).count + CountSum(Tail(rows))

(* C10 as stated: the five band counts sum to the number of records.       *)
C10_BandsPartition ==
    BandsDone => CountSum(risk_distribution) = Len(df)

====
